---------------------------- MODULE Spec2Model ----------------------------
(***************************************************************************)
(* Model of the hybrid rank-fusion query of                                *)
(* voyageai-vector-embeddings/voyage_hybrid_query.py.                      *)
(*                                                                         *)
(* main() reads three settings from the environment, asks the embedding    *)
(* service for the query vector, sends ONE aggregation pipeline to the     *)
(* database and prints the documents that come back.  The pipeline's       *)
(* stages are modelled one operator per stage, in the order of the         *)
(* pipeline list, over exact rationals (a score is a pair <<num, den>> in  *)
(* lowest terms); the database's two retrievals are the ranked match lists *)
(* vecHits and txtHits chosen in Init.                                     *)
(*                                                                         *)
(* The other scripts of the repository each have a specification of their  *)
(* own over their own variables: add_embeddings.py (SpecAddEmbeddings, and *)
(* its embed_texts in SpecEmbedTexts), the backfill scripts 02/03/04       *)
(* (SpecBackfill), 01_create_memory_collection.py (SpecMemoryCollection),  *)
(* the ensure-index helpers with 05_create_vector_search_indexes.py and    *)
(* regex_fts_comparison.py (SpecEnsureIndex), and 06_cleanup_mcp_demo.py   *)
(* (SpecCleanup).  A specification holds the variables of the others       *)
(* fixed.                                                                  *)
(***************************************************************************)
EXTENDS Integers, Sequences, FiniteSets, TLC

\* ------------------------------------------------------------------ bounds
NumItems == 3
MaxPriority == 5
MaxLimit == 3
MaxRuns == 2
NumDocs == 3
MaxBatchSize == 2
MaxCalls == 6

\* ItemIDs (_id of a movie document): A = 1, B = 2, C = 3; X, Y are any of them
Items == 1..NumItems
\* int(os.getenv("VECTOR_PRIORITY", 1)): no damping, the default, and a large
\* one.  Priorities are taken non-negative, so rank + priority + 1 is never 0
\* and the $divide never fails.
DefaultPriority == 1
Priorities == {0, DefaultPriority, MaxPriority}
Limits == (0 - 1)..MaxLimit

\* BSON null / a missing field
Null == <<>>

\* the presentation fields (title, plot, year) stored in the document with
\* this _id; one value stands for the three, which every stage treats alike
Title(id) == <<"title", id>>

\* ------------------------------------------------- arithmetic of the stages
RECURSIVE GCD(_, _)
GCD(a, b) == IF b = 0 THEN a ELSE GCD(b, a % b)

\* a rational in lowest terms, den > 0
Frac(n, d) == LET g == GCD(n, d) IN <<n \div g, d \div g>>

\* {"$divide": [1.0, x]}
divide(x, y) == Frac(x[1], x[2] * y)

\* {"$add": [x, y]} on numbers
add(x, y) == Frac(x[1] * y[2] + y[1] * x[2], x[2] * y[2])

\* {"$ifNull": [x, dflt]}
ifNull(x, dflt) == IF x = Null THEN dflt ELSE x

\* x >= y on rationals
Geq(x, y) == x[1] * y[2] >= y[1] * x[2]

\* the greatest of a non-empty set of rationals
MaxOf(S) == CHOOSE x \in S : \A y \in S : Geq(x, y)

\* all sequences without repetition over S
InjSeqs(S) ==
    UNION { { s \in [1..n -> S] : \A i, j \in 1..n : i # j => s[i] # s[j] }
            : n \in 0..Cardinality(S) }

Take(s, n) == SubSeq(s, 1, IF n < Len(s) THEN n ELSE Len(s))

Range(s) == { s[i] : i \in DOMAIN s }

VARIABLES
    vector_priority,   \* main: VECTOR_PRIORITY
    text_priority,     \* main: TEXT_PRIORITY
    limit,             \* main: QUERY_LIMIT
    vecHits,           \* the index's ranking of the corpus for the query vector
    txtHits,           \* the index's ranking of the corpus for the query text
    pc,                \* where main is
    run,               \* which invocation of the script this is
    embedFailed,       \* client.embed raised in this invocation
    vectorFailed,      \* the $vectorSearch retrieval failed in this invocation
    textFailed,        \* the $search retrieval failed in this invocation
    scored,            \* per source, the documents after make_compute_score_doc
    ranked,            \* the documents after sort_results
    results,           \* the documents the aggregation returned
    printed,           \* the documents printed so far
    history            \* what earlier invocations printed

vars == <<vector_priority, text_priority, limit, vecHits, txtHits, pc, run,
          embedFailed, vectorFailed, textFailed, scored, ranked, results,
          printed, history>>

env == <<vector_priority, text_priority, limit, vecHits, txtHits>>

\* The stages make_compute_score_doc, make_projection_doc and
\* combine_search_results applied on their own to any list of ranked
\* documents of one source, under two priorities.
VARIABLES
    stageDocs,         \* the input: pairs <<_id, rank>>, an _id possibly repeated
    stageField,        \* the source's score field: "vs_score" or "ts_score"
    stagePriority,     \* [low, high]: two priorities, low <= high
    stageScored,       \* [low, high]: the documents after make_compute_score_doc
    stageCombined,     \* [low, high]: the documents after combine_search_results
    stagePc            \* "off", "input", "scored", "combined"

stageVars == <<stageDocs, stageField, stagePriority, stageScored,
               stageCombined, stagePc>>

\* voyageai-vector-embeddings/add_embeddings.py over a collection of NumDocs
\* documents, scanned in the order 1..NumDocs
VARIABLES
    plot,              \* per document: "text", "" or "missing" (no string there)
    plot_embedding,    \* per document: "none" (no field), "old" (there before
                       \* the first run) or "new" (set by the script)
    indexExists,       \* the search index plot_embedding_index exists
    DRY_RUN,           \* the DRY_RUN setting of this run
    BATCH_SIZE,        \* the BATCH_SIZE setting
    cursor,            \* the documents the cursor has scanned so far
    batch_docs,        \* main: the batch in hand
    total_updates,     \* main: total_updates
    aePc,              \* where main is
    aeRun,             \* which invocation of the script this is
    embAtStart,        \* plot_embedding when this run started
    written,           \* the documents this run has updated
    skipped,           \* this run skipped a batch on an embedding error
    indexCreated,      \* this run created the search index
    prevComplete       \* the run before this one wrote every batch and ended

aeRunVars == <<cursor, batch_docs, total_updates, written, skipped, indexCreated>>

aeVars == <<plot, plot_embedding, indexExists, DRY_RUN, BATCH_SIZE, aePc, aeRun,
            embAtStart, prevComplete, aeRunVars>>

\* agentic-ai-with-mcp/voyageai-vector-embeddings/02_backfill_movie_embeddings.py,
\* 03_backfill_comment_embeddings.py and 04_backfill_memory_embeddings.py over
\* a collection of NumDocs documents, found in the order 1..NumDocs
VARIABLES
    bfScript,          \* which script runs: "movies", "comments" or "memory"
    force,             \* main: force (FORCE == "1")
    batch_size,        \* main: batch_size
    max_docs_i,        \* main: max_docs_i, 0 for None
    embedding,         \* per document, the embedding field: "missing", "null",
                       \* "old" (a vector there before the run) or "new"
    text,              \* per document, the text it offers: "text", "blank"
                       \* (a string of spaces) or "none" (no string, or "")
    bfDocs,              \* main: bfDocs, the _id of the documents found
    chunkStart,        \* batched: i, the start of the chunk in hand
    ids,               \* main: ids, the _id of the chunk's documents to update
    updated,           \* main: updated
    bfPc,              \* where main is
    embAtSelect,       \* the embedding field when the documents were selected
    bfWritten          \* the documents this run has updated

bfVars == <<bfScript, force, batch_size, max_docs_i, embedding, text, bfDocs,
            chunkStart, ids, updated, bfPc, embAtSelect, bfWritten>>

\* agentic-ai-with-mcp/01_create_memory_collection.py
VARIABLES
    mcExists,          \* coll_name in db.list_collection_names()
    mcIndexes,         \* per index name: "absent", "same" (the index main asks
                       \* for) or "other" (an index the request conflicts with)
    mcCount,           \* coll.count_documents({})
    mcSeeds,           \* how many seed documents main has inserted, all runs
    mcNext,            \* which create_index call is next: 1, 2 or 3
    mcPc,              \* where main is
    mcRun,             \* which invocation of the script this is
    mcCount0,          \* the number of documents before the first run
    mcAfterFirst       \* the collection as the first run left it

mcVars == <<mcExists, mcIndexes, mcCount, mcSeeds, mcNext, mcPc, mcRun, mcCount0,
            mcAfterFirst>>

\* the ensure-index helpers and the main that calls them, of
\* voyageai-vector-embeddings/add_embeddings.py and add_plot_indexes.py,
\* agentic-ai-with-mcp/voyageai-vector-embeddings/05_create_vector_search_indexes.py
\* and full-text-search/regex_fts_comparison.py
VARIABLES
    eiScript,          \* which script runs
    eiStatus,          \* per index the script ensures: "absent", "pending"
                       \* (requested, not yet listed), "building" (listed, not
                       \* queryable) or "queryable"
    eiTarget,          \* which of its indexes the script is ensuring
    eiPc,              \* where the script is
    eiPolls,           \* the listings made by the polling loop in hand
    eiExisting,        \* existing / index_exists: the first listing had the name
    eiFound,           \* the indexes whose first listing had the name
    eiRequested,       \* the indexes create_search_index was called for
    eiTimedOut,        \* the indexes whose polling ran out
    eiSearched         \* the index's status when the first $search was sent,
                       \* "none" before

eiVars == <<eiScript, eiStatus, eiTarget, eiPc, eiPolls, eiExisting, eiFound,
            eiRequested, eiTimedOut, eiSearched>>

\* agentic-ai-with-mcp/voyageai-vector-embeddings/06_cleanup_mcp_demo.py
VARIABLES
    clIndex,           \* per collection (comments, movies, memory): its vector
                       \* search index exists
    clEmbedded,        \* per collection (comments, movies): some document has
                       \* the embedding field
    clMemDb,           \* the memory database exists
    clStep,            \* which collection the step in hand is about
    clPc,              \* where main is
    clReturn,          \* what main returned: 0 or 2, NotReturned before
    clFailed           \* the steps whose exception main caught and printed

clVars == <<clIndex, clEmbedded, clMemDb, clStep, clPc, clReturn, clFailed>>

\* embed_texts of voyageai-vector-embeddings/add_embeddings.py, called by main
\* for one batch
VARIABLES
    etService,         \* what the embedding service answers to the 1st, 2nd, ...
                       \* call: "ok", "rate_limit" or "error"
    etCalls,           \* the client.embed calls made so far
    etResult,          \* "running", "returned", "raised" (the service's error
                       \* re-raised) or "runtime_error"
    etReturned,        \* which call's embeddings were returned, 0 for none
    etMain             \* main: "waiting", "write" (goes on with the vectors)
                       \* or "skipped" (except Exception: continue)

etVars == <<etService, etCalls, etResult, etReturned, etMain>>

\* the variables of the scripts modelled further down
moreVars == <<bfVars, mcVars, eiVars, clVars, etVars>>

allVars == <<vars, stageVars, aeVars, moreVars>>

\* the variables of the other scripts and stages, which main leaves alone
notHybridVars == <<stageVars, aeVars, moreVars>>

Docs == 1..NumDocs

AddEmbeddingsOff ==
    /\ plot = [i \in Docs |-> "missing"]
    /\ plot_embedding = [i \in Docs |-> "none"]
    /\ indexExists = FALSE
    /\ DRY_RUN = FALSE
    /\ BATCH_SIZE = 1
    /\ cursor = 0
    /\ batch_docs = <<>>
    /\ total_updates = 0
    /\ aePc = "off"
    /\ aeRun = 1
    /\ embAtStart = [i \in Docs |-> "none"]
    /\ written = {}
    /\ skipped = FALSE
    /\ indexCreated = FALSE
    /\ prevComplete = FALSE

BackfillOff ==
    /\ bfScript = "movies"
    /\ force = FALSE
    /\ batch_size = 1
    /\ max_docs_i = 0
    /\ embedding = [i \in Docs |-> "missing"]
    /\ text = [i \in Docs |-> "none"]
    /\ bfDocs = <<>>
    /\ chunkStart = 0
    /\ ids = <<>>
    /\ updated = 0
    /\ bfPc = "off"
    /\ embAtSelect = [i \in Docs |-> "missing"]
    /\ bfWritten = {}

\* the indexes main asks for, in the order of its create_index calls
IndexNames == <<"subject_asc", "created_at_asc", "user_id_asc">>

MemoryCollectionOff ==
    /\ mcExists = FALSE
    /\ mcIndexes = [k \in DOMAIN IndexNames |-> "absent"]
    /\ mcCount = 0
    /\ mcSeeds = 0
    /\ mcNext = 1
    /\ mcPc = "off"
    /\ mcRun = 1
    /\ mcCount0 = 0
    /\ mcAfterFirst = <<>>

\* the most indexes one script ensures: comments, movies, memory
Targets == 1..3

EnsureIndexOff ==
    /\ eiScript = "add_embeddings"
    /\ eiStatus = [k \in Targets |-> "absent"]
    /\ eiTarget = 1
    /\ eiPc = "off"
    /\ eiPolls = 0
    /\ eiExisting = FALSE
    /\ eiFound = {}
    /\ eiRequested = {}
    /\ eiTimedOut = {}
    /\ eiSearched = "none"

\* the collections whose embedding field is unset: comments, movies
Embedded == 1..2

\* main has not returned
NotReturned == 0 - 1

CleanupOff ==
    /\ clIndex = [k \in Targets |-> FALSE]
    /\ clEmbedded = [k \in Embedded |-> FALSE]
    /\ clMemDb = FALSE
    /\ clStep = 1
    /\ clPc = "off"
    /\ clReturn = NotReturned
    /\ clFailed = {}

EmbedTextsOff ==
    /\ etService = [k \in 1..MaxCalls |-> "ok"]
    /\ etCalls = 0
    /\ etResult = "off"
    /\ etReturned = 0
    /\ etMain = "off"

\* none of the scripts modelled further down is running
MoreOff ==
    /\ BackfillOff
    /\ MemoryCollectionOff
    /\ EnsureIndexOff
    /\ CleanupOff
    /\ EmbedTextsOff

StagesOff ==
    /\ stageDocs = <<>>
    /\ stageField = "vs_score"
    /\ stagePriority = [low |-> 0, high |-> 0]
    /\ stageScored = [low |-> <<>>, high |-> <<>>]
    /\ stageCombined = [low |-> {}, high |-> {}]
    /\ stagePc = "off"

\* ------------------------------------------------------ pipeline stages
\* One = the literal 1.0, Zero = the literal 0 of the $ifNull defaults
One == <<1, 1>>
Zero == <<0, 1>>

overrequest_factor == 10

\* "numCandidates": limit * overrequest_factor
numCandidates == limit * overrequest_factor

\* vector_search returning numCandidates documents instead of "limit"
vector_search_overrequest ==
    Take([k \in DOMAIN vecHits |->
            [_id |-> vecHits[k], title |-> Title(vecHits[k])]],
         numCandidates)

\* $vectorSearch: the nearest documents among numCandidates candidates, best
\* first, at most "limit" of them
vector_search ==
    Take(Take([k \in DOMAIN vecHits |->
                 [_id |-> vecHits[k], title |-> Title(vecHits[k])]],
              numCandidates),
         limit)

\* $search: every document matching the query text, best first
text_search ==
    [k \in DOMAIN txtHits |-> [_id |-> txtHits[k], title |-> Title(txtHits[k])]]

\* limit_results with the cut one place too far
limit_results_off_by_one(docs) == Take(docs, limit + 1)

\* {"$limit": limit}
limit_results(docs) == Take(docs, limit)

\* $group with _id None and $push of $$ROOT: one document holding the whole
\* input as an array, and no document at all for an empty input
make_array(docs) ==
    IF docs = <<>> THEN <<>> ELSE << [_id |-> Null, docs |-> docs] >>

\* add_rank counting from 1
add_rank_one_based(grouped) ==
    IF grouped = <<>> THEN <<>>
    ELSE [k \in DOMAIN grouped[1].docs |->
            [_id |-> grouped[1]._id, docs |-> grouped[1].docs[k], rank |-> k]]

\* $unwind of docs with includeArrayIndex "rank": one document per array
\* element, rank = its index in the array
add_rank(grouped) ==
    IF grouped = <<>> THEN <<>>
    ELSE [k \in DOMAIN grouped[1].docs |->
            [_id |-> grouped[1]._id, docs |-> grouped[1].docs[k], rank |-> k - 1]]

\* make_compute_score_doc with the priority left out of the $add
make_compute_score_doc_no_priority(priority, score_field_name, docs) ==
    [k \in DOMAIN docs |->
        (score_field_name :> divide(One, docs[k].rank + 1)) @@ docs[k]]

\* make_compute_score_doc with the priority as a weight: priority / (rank + 1)
make_compute_score_doc_weight(priority, score_field_name, docs) ==
    [k \in DOMAIN docs |->
        (score_field_name :> divide(<<priority, 1>>, docs[k].rank + 1)) @@ docs[k]]

\* $addFields score_field_name: 1.0 / (rank + priority + 1)
make_compute_score_doc(priority, score_field_name, docs) ==
    [k \in DOMAIN docs |->
        (score_field_name :> divide(One, docs[k].rank + priority + 1)) @@ docs[k]]

\* make_projection_doc with "$rank" projected as the _id
make_projection_doc_rank_as_id(score_field_name, docs) ==
    [k \in DOMAIN docs |->
        (score_field_name :> docs[k][score_field_name])
            @@ [_id |-> docs[k].rank, title |-> docs[k].docs.title]]

\* make_projection_doc with "$title" projected instead of "$docs.title": the
\* unwound document has no such field
make_projection_doc_own_title(score_field_name, docs) ==
    [k \in DOMAIN docs |->
        (score_field_name :> docs[k][score_field_name])
            @@ [_id |-> docs[k].docs._id, title |-> Null]]

\* $project: the score field, and the _id and the presentation fields of the
\* embedded document
make_projection_doc(score_field_name, docs) ==
    [k \in DOMAIN docs |->
        (score_field_name :> docs[k][score_field_name])
            @@ [_id |-> docs[k].docs._id, title |-> docs[k].docs.title]]

\* the stages of the pipeline up to make_compute_score_doc, per source
vector_scored ==
    make_compute_score_doc(vector_priority, "vs_score",
        add_rank(make_array(vector_search)))

text_scored ==
    make_compute_score_doc(text_priority, "ts_score",
        add_rank(make_array(limit_results(text_search))))

\* $unionWith: the documents of the outer pipeline, then those of the inner
unionWith(outer, inner) == outer \o inner

\* max_field with $min
max_field_min(group, field) ==
    LET vals == { d[field] : d \in { e \in group : field \in DOMAIN e } }
    IN  IF vals = {} THEN Null
        ELSE CHOOSE x \in vals : \A y \in vals : Geq(y, x)

\* {"$max": "$field"} over a group: the greatest value, null when no document
\* of the group has the field
max_field(group, field) ==
    LET vals == { d[field] : d \in { e \in group : field \in DOMAIN e } }
    IN  IF vals = {} THEN Null ELSE MaxOf(vals)

\* {"$first": "$field"} over the documents with this _id: the value in the
\* first of them
first_field(docs, id, field) ==
    LET k == CHOOSE i \in DOMAIN docs :
                /\ docs[i]._id = id
                /\ \A j \in DOMAIN docs : docs[j]._id = id => i <= j
    IN  docs[k][field]

\* combine_search_results without the grouping: one document per input
combine_search_results_ungrouped(docs) ==
    { [_id      |-> d._id,
       vs_score |-> max_field({d}, "vs_score"),
       ts_score |-> max_field({d}, "ts_score"),
       title    |-> d.title]
      : d \in Range(docs) }

\* $group by _id: one document per distinct _id; the order in which a $group
\* emits its documents is unspecified, so the result is a set
combine_search_results(docs) ==
    { [_id      |-> id,
       vs_score |-> max_field({ d \in Range(docs) : d._id = id }, "vs_score"),
       ts_score |-> max_field({ d \in Range(docs) : d._id = id }, "ts_score"),
       title    |-> first_field(docs, id, "title")]
      : id \in { d._id : d \in Range(docs) } }

\* project_combined_results with a missing source scored as rank 0
project_combined_results_default_rank(docs) ==
    { [_id   |-> d._id,
       title |-> d.title,
       score |-> add(ifNull(d.vs_score, One), ifNull(d.ts_score, One))]
      : d \in docs }

\* $project _id, the presentation fields, and
\* score = ifNull(vs_score, 0) + ifNull(ts_score, 0)
project_combined_results(docs) ==
    { [_id   |-> d._id,
       title |-> d.title,
       score |-> add(ifNull(d.vs_score, Zero), ifNull(d.ts_score, Zero))]
      : d \in docs }

\* sort_results with {"score": 1}
sort_results_ascending(a, b) == Geq(b.score, a.score)

\* {"$sort": {"score": -1}}: a may stand before b
sort_results(a, b) == Geq(a.score, b.score)

\* every order the $sort may emit: documents with equal keys in any order
RECURSIVE SortOutcomes(_)
SortOutcomes(docs) ==
    IF docs = {} THEN { <<>> }
    ELSE UNION { { <<m>> \o rest : rest \in SortOutcomes(docs \ {m}) }
                 : m \in { d \in docs : \A e \in docs : sort_results(d, e) } }

\* the documents entering sort_results
fused ==
    project_combined_results(
        combine_search_results(
            unionWith(make_projection_doc("vs_score", vector_scored),
                      make_projection_doc("ts_score", text_scored))))

\* ------------------------------------------------------------- main
\* get_embeddings with the exception caught and main going on
get_embeddings_caught(raised) == "embedded"

\* get_embeddings has no handler around client.embed and main has none around
\* the call: an exception of the embedding service leaves main
get_embeddings(raised) == IF raised THEN "crashed" ELSE "embedded"

\* coll.aggregate failing only when both retrievals fail
aggregate_raises_tolerant(vector_error, text_error) ==
    (vector_error /\ text_error) \/ limit < 1

\* coll.aggregate failing also when no document matches either query
aggregate_raises_on_empty(vector_error, text_error) ==
    \/ vector_error \/ text_error \/ limit < 1
    \/ (vecHits = <<>> /\ txtHits = <<>>)

\* coll.aggregate sends the whole pipeline as one command: the command fails
\* when either retrieval stage fails, and the server rejects a $limit (and a
\* $vectorSearch limit) that is not positive
aggregate_raises(vector_error, text_error) ==
    vector_error \/ text_error \/ limit < 1

NoScored == [vector |-> <<>>, text |-> <<>>]

Init ==
    /\ vector_priority \in Priorities
    /\ text_priority \in Priorities
    /\ limit \in Limits
    /\ vecHits \in InjSeqs(Items)
    /\ txtHits \in InjSeqs(Items)
    /\ pc = "start"
    /\ run = 1
    /\ embedFailed = FALSE
    /\ vectorFailed = FALSE
    /\ textFailed = FALSE
    /\ scored = NoScored
    /\ ranked = <<>>
    /\ results = <<>>
    /\ printed = <<>>
    /\ history = <<>>
    /\ StagesOff
    /\ AddEmbeddingsOff
    /\ MoreOff

\* query_embedding = get_embeddings([query], ...)
GetEmbeddings ==
    /\ pc = "start"
    /\ \E raised \in BOOLEAN :
        /\ embedFailed' = raised
        /\ pc' = get_embeddings(raised)
    /\ UNCHANGED <<env, run, vectorFailed, textFailed, scored, ranked,
                   results, printed, history>>
    /\ UNCHANGED notHybridVars

\* results = coll.aggregate(pipeline)
Aggregate ==
    /\ pc = "embedded"
    /\ \E vector_error, text_error \in BOOLEAN :
        /\ vectorFailed' = vector_error
        /\ textFailed' = text_error
        /\ IF aggregate_raises(vector_error, text_error)
           THEN /\ pc' = "crashed"
                /\ UNCHANGED <<scored, ranked, results>>
           ELSE /\ pc' = "aggregated"
                /\ scored' = [vector |-> vector_scored, text |-> text_scored]
                /\ \E sorted \in SortOutcomes(fused) :
                    /\ ranked' = sorted
                    /\ results' = limit_results(sorted)
    /\ UNCHANGED <<env, run, embedFailed, printed, history>>
    /\ UNCHANGED notHybridVars

\* for doc in results: print(doc)
PrintResults ==
    /\ pc = "aggregated"
    /\ printed' = results
    /\ pc' = "done"
    /\ UNCHANGED <<env, run, embedFailed, vectorFailed, textFailed, scored,
                   ranked, results, history>>
    /\ UNCHANGED notHybridVars

\* the script, having printed its results, is run again with the same
\* environment over the same corpus
RunAgain ==
    /\ pc = "done"
    /\ run < MaxRuns
    /\ run' = run + 1
    /\ history' = Append(history, printed)
    /\ pc' = "start"
    /\ embedFailed' = FALSE
    /\ vectorFailed' = FALSE
    /\ textFailed' = FALSE
    /\ scored' = NoScored
    /\ ranked' = <<>>
    /\ results' = <<>>
    /\ printed' = <<>>
    /\ UNCHANGED env
    /\ UNCHANGED notHybridVars

Next == GetEmbeddings \/ Aggregate \/ PrintResults \/ RunAgain

Spec == Init /\ [][Next]_allVars

\* ------------------------------------------------ the stages on their own
\* main is not running
HybridOff ==
    /\ vector_priority = 0
    /\ text_priority = 0
    /\ limit = 0
    /\ vecHits = <<>>
    /\ txtHits = <<>>
    /\ pc = "off"
    /\ run = 1
    /\ embedFailed = FALSE
    /\ vectorFailed = FALSE
    /\ textFailed = FALSE
    /\ scored = NoScored
    /\ ranked = <<>>
    /\ results = <<>>
    /\ printed = <<>>
    /\ history = <<>>

\* the ranks a source of NumItems documents can assign
Ranks == 0..(NumItems - 1)

\* all sequences over S of length at most n
SeqsUpTo(S, n) == UNION { [1..m -> S] : m \in 0..n }

\* the documents as add_rank emits them
stageRanked ==
    [k \in DOMAIN stageDocs |->
        [_id  |-> Null,
         docs |-> [_id |-> stageDocs[k][1], title |-> Title(stageDocs[k][1])],
         rank |-> stageDocs[k][2]]]

InitStages ==
    /\ HybridOff
    /\ AddEmbeddingsOff
    /\ MoreOff
    /\ stageDocs \in SeqsUpTo(Items \X Ranks, NumItems)
    /\ stageField \in {"vs_score", "ts_score"}
    /\ stagePriority \in { p \in [low : Priorities, high : Priorities] : p.low <= p.high }
    /\ stageScored = [low |-> <<>>, high |-> <<>>]
    /\ stageCombined = [low |-> {}, high |-> {}]
    /\ stagePc = "input"

\* make_compute_score_doc(priority, score_field_name) under either priority
ComputeScore ==
    /\ stagePc = "input"
    /\ stageScored' =
        [low  |-> make_compute_score_doc(stagePriority.low, stageField, stageRanked),
         high |-> make_compute_score_doc(stagePriority.high, stageField, stageRanked)]
    /\ stagePc' = "scored"
    /\ UNCHANGED <<vars, aeVars, moreVars, stageDocs, stageField, stagePriority, stageCombined>>

\* make_projection_doc(score_field_name), then combine_search_results
Combine ==
    /\ stagePc = "scored"
    /\ stageCombined' =
        [low  |-> combine_search_results(
                      make_projection_doc(stageField, stageScored.low)),
         high |-> combine_search_results(
                      make_projection_doc(stageField, stageScored.high))]
    /\ stagePc' = "combined"
    /\ UNCHANGED <<vars, aeVars, moreVars, stageDocs, stageField, stagePriority, stageScored>>

NextStages == ComputeScore \/ Combine

SpecStages == InitStages /\ [][NextStages]_allVars

\* ------------------------------------------------------- add_embeddings.py
\* fetch_docs_to_process matching every document with a plot, embedded or not
fetch_docs_to_process_all(i) == plot[i] = "text"

\* the filter of fetch_docs_to_process: no plot_embedding field, and a plot
\* that is a string other than ""
fetch_docs_to_process(i) == plot_embedding[i] = "none" /\ plot[i] = "text"

\* the next documents the cursor yields: those at positions after "from" that
\* match the filter when they are scanned, at most n of them
RECURSIVE next_batch(_, _)
next_batch(from, n) ==
    IF n <= 0 \/ from >= NumDocs THEN <<>>
    ELSE IF fetch_docs_to_process(from + 1)
         THEN <<from + 1>> \o next_batch(from + 1, n - 1)
         ELSE next_batch(from + 1, n)

\* ensure_vector_index: whether it creates the index.  A failed listing counts
\* as no index; creating an index that exists, or a failing creation, only
\* prints a warning
ensure_vector_index(list_error, create_error) ==
    LET existing == ~list_error /\ indexExists
    IN  ~existing /\ ~indexExists /\ ~create_error

InitAddEmbeddings ==
    /\ HybridOff
    /\ StagesOff
    /\ MoreOff
    /\ plot \in [Docs -> {"text", "", "missing"}]
    /\ plot_embedding \in [Docs -> {"none", "old"}]
    /\ indexExists \in BOOLEAN
    /\ DRY_RUN \in BOOLEAN
    /\ BATCH_SIZE \in 1..MaxBatchSize
    /\ cursor = 0
    /\ batch_docs = <<>>
    /\ total_updates = 0
    /\ aePc = "start"
    /\ aeRun = 1
    /\ embAtStart = plot_embedding
    /\ written = {}
    /\ skipped = FALSE
    /\ indexCreated = FALSE
    /\ prevComplete = FALSE

aeFrame == UNCHANGED <<vars, stageVars, moreVars>>

\* cursor = fetch_docs_to_process(); total_updates = 0
FetchDocs ==
    /\ aePc = "start"
    /\ cursor' = 0
    /\ total_updates' = 0
    /\ aePc' = "loop"
    /\ UNCHANGED <<plot, plot_embedding, indexExists, DRY_RUN, BATCH_SIZE, aeRun,
                   embAtStart, prevComplete, batch_docs, written, skipped,
                   indexCreated>>
    /\ aeFrame

\* batch_docs = [d for _, d in zip(range(BATCH_SIZE), cursor)];
\* if not batch_docs: break, and cursor.close() and the "Done" line follow
ReadBatch ==
    /\ aePc = "loop"
    /\ batch_docs' = next_batch(cursor, BATCH_SIZE)
    /\ cursor' = IF Len(batch_docs') < BATCH_SIZE THEN NumDocs
                 ELSE batch_docs'[Len(batch_docs')]
    /\ aePc' = IF batch_docs' = <<>> THEN "ensure" ELSE "embed"
    /\ UNCHANGED <<plot, plot_embedding, indexExists, DRY_RUN, BATCH_SIZE, aeRun,
                   embAtStart, prevComplete, total_updates, written, skipped,
                   indexCreated>>
    /\ aeFrame

\* vectors = embed_texts(texts); except Exception: continue
EmbedBatch ==
    /\ aePc = "embed"
    /\ \E raised \in BOOLEAN :
        /\ aePc' = IF raised THEN "loop" ELSE "write"
        /\ skipped' = (skipped \/ raised)
    /\ UNCHANGED <<plot, plot_embedding, indexExists, DRY_RUN, BATCH_SIZE, aeRun,
                   embAtStart, prevComplete, cursor, batch_docs, total_updates,
                   written, indexCreated>>
    /\ aeFrame

\* the UpdateOne operations of the batch: printed under DRY_RUN, else sent
\* with coll.bulk_write(ops, ordered=False), which either applies them all or
\* raises after applying some of them
WriteBatch ==
    /\ aePc = "write"
    /\ IF DRY_RUN
       THEN /\ aePc' = "loop"
            /\ UNCHANGED <<plot_embedding, total_updates, written>>
       ELSE \E raised \in BOOLEAN : \E applied \in SUBSET Range(batch_docs) :
            /\ raised \/ applied = Range(batch_docs)
            /\ plot_embedding' =
                [i \in Docs |-> IF i \in applied THEN "new" ELSE plot_embedding[i]]
            /\ written' = written \cup applied
            /\ IF raised
               THEN /\ aePc' = "crashed"
                    /\ UNCHANGED total_updates
               ELSE /\ aePc' = "loop"
                    /\ total_updates' = total_updates + Cardinality(applied)
    /\ UNCHANGED <<plot, indexExists, DRY_RUN, BATCH_SIZE, aeRun, embAtStart,
                   prevComplete, cursor, batch_docs, skipped, indexCreated>>
    /\ aeFrame

\* print("Done. ..."); ensure_vector_index()
EnsureVectorIndex ==
    /\ aePc = "ensure"
    /\ \E list_error, create_error \in BOOLEAN :
        /\ indexCreated' = ensure_vector_index(list_error, create_error)
        /\ indexExists' = (indexExists \/ indexCreated')
    /\ aePc' = "done"
    /\ UNCHANGED <<plot, plot_embedding, DRY_RUN, BATCH_SIZE, aeRun, embAtStart,
                   prevComplete, cursor, batch_docs, total_updates, written,
                   skipped>>
    /\ aeFrame

\* the script is run again over the collection as the last run left it
AddEmbeddingsAgain ==
    /\ aePc \in {"done", "crashed"}
    /\ aeRun < MaxRuns
    /\ aeRun' = aeRun + 1
    /\ prevComplete' = (aePc = "done" /\ ~DRY_RUN /\ ~skipped)
    /\ DRY_RUN' \in BOOLEAN
    /\ embAtStart' = plot_embedding
    /\ cursor' = 0
    /\ batch_docs' = <<>>
    /\ total_updates' = 0
    /\ written' = {}
    /\ skipped' = FALSE
    /\ indexCreated' = FALSE
    /\ aePc' = "start"
    /\ UNCHANGED <<plot, plot_embedding, indexExists, BATCH_SIZE>>
    /\ aeFrame

NextAddEmbeddings ==
    \/ FetchDocs \/ ReadBatch \/ EmbedBatch \/ WriteBatch
    \/ EnsureVectorIndex \/ AddEmbeddingsAgain

SpecAddEmbeddings == InitAddEmbeddings /\ [][NextAddEmbeddings]_allVars

\* ------------------------------------------- 02/03/04 backfill embeddings
\* the scripts and the collection each works on
BackfillScripts == {"movies", "comments", "memory"}

\* the document has something to embed, as the query sees it: movies
\* {"$or": [fullplot, title]} and comments {"text": ...} ask for a string
\* other than ""; memory's query has no such clause
has_text(s, i) == s = "memory" \/ text[i] \in {"text", "blank"}

\* the query with FORCE taken as set
backfill_query_forced(s, f, i) == has_text(s, i)

\* main: query.  Without force it adds
\* {"$or": [{embed_field: {"$exists": False}}, {embed_field: None}]}
backfill_query(s, f, i) ==
    has_text(s, i) /\ (f \/ embedding[i] \in {"missing", "null"})

\* build_text / get_text give a non-empty string: the movie's and the
\* comment's text is stripped, a memory document always yields some text
build_text(s, i) == s = "memory" \/ text[i] = "text"

\* cursor = coll.find(query); docs filled until max_docs_i is reached
find(s, f, cap) ==
    LET Matches(i) == backfill_query(s, f, i)
        found == SelectSeq([i \in 1..NumDocs |-> i], Matches)
    IN  IF cap > 0 THEN Take(found, cap) ELSE found

\* batched: items[i : i + batch_size]
chunk_at(items, i, n) ==
    SubSeq(items, i + 1, IF i + n < Len(items) THEN i + n ELSE Len(items))

InitBackfill ==
    /\ HybridOff
    /\ StagesOff
    /\ AddEmbeddingsOff
    /\ MemoryCollectionOff
    /\ EnsureIndexOff
    /\ CleanupOff
    /\ EmbedTextsOff
    /\ bfScript \in BackfillScripts
    /\ force \in BOOLEAN
    /\ batch_size \in 1..MaxBatchSize
    /\ max_docs_i \in 0..MaxBatchSize
    /\ embedding \in [Docs -> {"missing", "null", "old"}]
    /\ text \in [Docs -> {"text", "blank", "none"}]
    /\ bfDocs = <<>>
    /\ chunkStart = 0
    /\ ids = <<>>
    /\ updated = 0
    /\ bfPc = "start"
    /\ embAtSelect = embedding
    /\ bfWritten = {}

bfFrame == UNCHANGED <<vars, stageVars, aeVars, mcVars, eiVars, clVars, etVars>>

\* where main goes after the chunk starting at i
after_chunk(i) == IF i + batch_size >= Len(bfDocs) THEN "done" ELSE "chunk"

\* cursor = coll.find(query, ...); docs = [...]; if not docs: return
BackfillFind ==
    /\ bfPc = "start"
    /\ bfDocs' = find(bfScript, force, max_docs_i)
    /\ embAtSelect' = embedding
    /\ updated' = 0
    /\ chunkStart' = 0
    /\ bfPc' = IF bfDocs' = <<>> THEN "done" ELSE "chunk"
    /\ UNCHANGED <<bfScript, force, batch_size, max_docs_i, embedding, text, ids,
                   bfWritten>>
    /\ bfFrame

\* texts = [build_text(d) ...]; ids = [...]; if not texts: continue;
\* resp = vclient.embed(texts, ...), which may raise
BackfillEmbed ==
    /\ bfPc = "chunk"
    /\ LET chunk == chunk_at(bfDocs, chunkStart, batch_size)
           HasText(i) == build_text(bfScript, i)
           kept == SelectSeq(chunk, HasText)
       IN  IF kept = <<>>
           THEN /\ ids' = <<>>
                /\ chunkStart' = chunkStart + batch_size
                /\ bfPc' = after_chunk(chunkStart)
           ELSE /\ ids' = kept
                /\ UNCHANGED chunkStart
                /\ \E raised \in BOOLEAN :
                       bfPc' = IF raised THEN "crashed" ELSE "write"
    /\ UNCHANGED <<bfScript, force, batch_size, max_docs_i, embedding, text, bfDocs,
                   updated, embAtSelect, bfWritten>>
    /\ bfFrame

\* ops = [UpdateOne({"_id": _id}, {"$set": {embed_field: emb}}) ...];
\* res = coll.bulk_write(ops, ordered=False); updated += res.modified_count.
\* An unordered bulk write that raises may have applied any of its updates.
BackfillWrite ==
    /\ bfPc = "write"
    /\ \E raised \in BOOLEAN : \E applied \in SUBSET Range(ids) :
        /\ raised \/ applied = Range(ids)
        /\ embedding' = [i \in Docs |-> IF i \in applied THEN "new" ELSE embedding[i]]
        /\ bfWritten' = bfWritten \cup applied
        /\ IF raised
           THEN /\ bfPc' = "crashed"
                /\ UNCHANGED <<updated, chunkStart>>
           ELSE /\ bfPc' = after_chunk(chunkStart)
                /\ updated' = updated + Cardinality(applied)
                /\ chunkStart' = chunkStart + batch_size
    /\ UNCHANGED <<bfScript, force, batch_size, max_docs_i, text, bfDocs, ids,
                   embAtSelect>>
    /\ bfFrame

NextBackfill == BackfillFind \/ BackfillEmbed \/ BackfillWrite

SpecBackfill == InitBackfill /\ [][NextBackfill]_allVars

\* -------------------------------------------- 01_create_memory_collection.py
\* if coll.count_documents({}) == 0, with the test left out
seed_needed_always(n) == TRUE

\* if coll.count_documents({}) == 0
seed_needed(n) == n = 0

\* the collection as the script's effects can be seen
mcState == <<mcExists, mcIndexes, mcCount>>

InitMemoryCollection ==
    /\ HybridOff
    /\ StagesOff
    /\ AddEmbeddingsOff
    /\ BackfillOff
    /\ EnsureIndexOff
    /\ CleanupOff
    /\ EmbedTextsOff
    /\ mcExists \in BOOLEAN
    /\ mcIndexes \in [DOMAIN IndexNames -> {"absent", "same", "other"}]
    /\ mcCount \in 0..NumDocs
    /\ ~mcExists => (mcCount = 0 /\ \A k \in DOMAIN IndexNames : mcIndexes[k] = "absent")
    /\ mcSeeds = 0
    /\ mcNext = 1
    /\ mcPc = "start"
    /\ mcRun = 1
    /\ mcCount0 = mcCount
    /\ mcAfterFirst = <<>>

mcFrame == UNCHANGED <<vars, stageVars, aeVars, bfVars, eiVars, clVars, etVars>>

\* if coll_name not in db.list_collection_names(): db.create_collection(coll_name)
CreateCollection ==
    /\ mcPc = "start"
    /\ mcExists' = TRUE
    /\ mcNext' = 1
    /\ mcPc' = "indexes"
    /\ UNCHANGED <<mcIndexes, mcCount, mcSeeds, mcRun, mcCount0, mcAfterFirst>>
    /\ mcFrame

\* coll.create_index([(key, ASCENDING)], name=...): creates the index, does
\* nothing when the same index is there, and raises when an index of that
\* name or on that key exists with another definition
CreateIndex ==
    /\ mcPc = "indexes"
    /\ IF mcIndexes[mcNext] = "other"
       THEN /\ mcPc' = "crashed"
            /\ UNCHANGED <<mcIndexes, mcNext>>
       ELSE /\ mcIndexes' = [mcIndexes EXCEPT ![mcNext] = "same"]
            /\ IF mcNext = Len(IndexNames)
               THEN mcPc' = "seed" /\ UNCHANGED mcNext
               ELSE mcPc' = "indexes" /\ mcNext' = mcNext + 1
    /\ UNCHANGED <<mcExists, mcCount, mcSeeds, mcRun, mcCount0, mcAfterFirst>>
    /\ mcFrame

\* if coll.count_documents({}) == 0: coll.insert_one({...}); print("Done.")
SeedDocument ==
    /\ mcPc = "seed"
    /\ IF seed_needed(mcCount)
       THEN mcCount' = mcCount + 1 /\ mcSeeds' = mcSeeds + 1
       ELSE UNCHANGED <<mcCount, mcSeeds>>
    /\ mcPc' = "done"
    /\ UNCHANGED <<mcExists, mcIndexes, mcNext, mcRun, mcCount0, mcAfterFirst>>
    /\ mcFrame

\* the script is run again
CreateMemoryCollectionAgain ==
    /\ mcPc \in {"done", "crashed"}
    /\ mcRun < MaxRuns
    /\ mcRun' = mcRun + 1
    /\ mcAfterFirst' = IF mcRun = 1 THEN mcState ELSE mcAfterFirst
    /\ mcPc' = "start"
    /\ mcNext' = 1
    /\ UNCHANGED <<mcExists, mcIndexes, mcCount, mcSeeds, mcCount0>>
    /\ mcFrame

NextMemoryCollection ==
    CreateCollection \/ CreateIndex \/ SeedDocument \/ CreateMemoryCollectionAgain

SpecMemoryCollection == InitMemoryCollection /\ [][NextMemoryCollection]_allVars

\* ------------------------------------------------ the ensure-index helpers
EnsureScripts == {"add_embeddings", "add_plot_indexes",
                  "create_vector_search_indexes", "regex_fts_comparison"}

\* how many indexes the script's main ensures
NumTargets(script) ==
    CASE script = "add_embeddings" -> 1
      [] script = "add_plot_indexes" -> 2
      [] script = "create_vector_search_indexes" -> 3
      [] script = "regex_fts_comparison" -> 1

\* for _ in range(30)
poll_attempts == 30

\* the listing has an index of that name
listed(status) == status \in {"building", "queryable"}

\* indices and indices[0].get("queryable")
queryable(status) == status = "queryable"

\* the helper going on to create whatever the listing had
ensure_creates_always(existing) == TRUE

\* "if existing: return" / "if any(...): return" / "if not index_exists:"
ensure_creates(existing) == ~existing

\* the polling loop's counter left where it is
next_poll_stuck(n) == n

\* the polling loop's next iteration
next_poll(n) == n + 1

\* where a raised exception leaves the script: add_embeddings and
\* add_plot_indexes catch PyMongoError inside the helper ("swallowed"),
\* regex_fts_comparison's main catches it and ends ("error"),
\* 05_create_vector_search_indexes does not catch it ("crashed")
on_error(script) ==
    CASE script \in {"add_embeddings", "add_plot_indexes"} -> "swallowed"
      [] script = "regex_fts_comparison" -> "error"
      [] script = "create_vector_search_indexes" -> "crashed"

\* the helper returns: main ensures its next index, runs the benchmarks, or ends
after_return(script, k) ==
    IF k < NumTargets(script) THEN "list"
    ELSE IF script = "regex_fts_comparison" THEN "benchmarks" ELSE "done"

next_target(script, k) == IF k < NumTargets(script) THEN k + 1 ELSE k

InitEnsureIndex ==
    /\ HybridOff
    /\ StagesOff
    /\ AddEmbeddingsOff
    /\ BackfillOff
    /\ MemoryCollectionOff
    /\ CleanupOff
    /\ EmbedTextsOff
    /\ eiScript \in EnsureScripts
    /\ eiStatus \in [Targets -> {"absent", "pending", "building", "queryable"}]
    /\ \A k \in Targets : k > NumTargets(eiScript) => eiStatus[k] = "absent"
    /\ eiTarget = 1
    /\ eiPc = "list"
    /\ eiPolls = 0
    /\ eiExisting = FALSE
    /\ eiFound = {}
    /\ eiRequested = {}
    /\ eiTimedOut = {}
    /\ eiSearched = "none"

eiFrame == UNCHANGED <<vars, stageVars, aeVars, bfVars, mcVars, clVars, etVars>>

\* existing = ...listSearchIndexes... / list(collection.list_search_indexes());
\* return when the name is there
ListSearchIndexesWith(raised) ==
    /\ eiPc = "list"
    /\  IF raised
        THEN /\ eiExisting' = FALSE
             /\ eiPc' = IF on_error(eiScript) = "swallowed" THEN "create"
                        ELSE on_error(eiScript)
             /\ UNCHANGED <<eiFound, eiTarget>>
        ELSE /\ eiExisting' = listed(eiStatus[eiTarget])
             /\ eiFound' = IF eiExisting' THEN eiFound \cup {eiTarget} ELSE eiFound
             /\ IF ensure_creates(eiExisting')
                THEN eiPc' = "create" /\ UNCHANGED eiTarget
                ELSE /\ eiPc' = after_return(eiScript, eiTarget)
                     /\ eiTarget' = next_target(eiScript, eiTarget)
    /\ UNCHANGED <<eiScript, eiStatus, eiPolls, eiRequested, eiTimedOut, eiSearched>>
    /\ eiFrame

ListSearchIndexes == \E raised \in BOOLEAN : ListSearchIndexesWith(raised)

\* collection.create_search_index(...): starts the build of an index that is
\* not there, and raises when the index is there or when the server refuses
CreateSearchIndexWith(refused) ==
    /\ eiPc = "create"
    /\ eiRequested' = eiRequested \cup {eiTarget}
    /\ LET raised == refused \/ eiStatus[eiTarget] # "absent" IN
        /\ eiStatus' = IF raised THEN eiStatus
                       ELSE [eiStatus EXCEPT ![eiTarget] = "pending"]
        /\ IF raised /\ on_error(eiScript) # "swallowed"
           THEN eiPc' = on_error(eiScript) /\ UNCHANGED eiTarget
           ELSE IF on_error(eiScript) = "swallowed"
                THEN /\ eiPc' = after_return(eiScript, eiTarget)
                     /\ eiTarget' = next_target(eiScript, eiTarget)
                ELSE eiPc' = "poll" /\ UNCHANGED eiTarget
    /\ eiPolls' = 0
    /\ UNCHANGED <<eiScript, eiExisting, eiFound, eiTimedOut, eiSearched>>
    /\ eiFrame

CreateSearchIndex == \E refused \in BOOLEAN : CreateSearchIndexWith(refused)

\* one turn of the polling loop.  05_create_vector_search_indexes: for _ in
\* range(30), return when the name is listed, and return after the last turn.
\* regex_fts_comparison: while True, break when the index reports queryable.
PollSearchIndexesWith(raised) ==
    /\ eiPc = "poll"
    /\  IF raised
        THEN /\ eiPc' = on_error(eiScript)
             /\ UNCHANGED <<eiPolls, eiTarget, eiTimedOut>>
        ELSE IF eiScript = "regex_fts_comparison"
        THEN /\ eiPc' = IF listed(eiStatus[eiTarget]) /\ queryable(eiStatus[eiTarget])
                        THEN "benchmarks" ELSE "poll"
             /\ UNCHANGED <<eiPolls, eiTarget, eiTimedOut>>
        ELSE /\ eiPolls' = next_poll(eiPolls)
             /\ IF listed(eiStatus[eiTarget])
                THEN /\ eiPc' = after_return(eiScript, eiTarget)
                     /\ eiTarget' = next_target(eiScript, eiTarget)
                     /\ UNCHANGED eiTimedOut
                ELSE IF eiPolls' >= poll_attempts
                THEN /\ eiPc' = after_return(eiScript, eiTarget)
                     /\ eiTarget' = next_target(eiScript, eiTarget)
                     /\ eiTimedOut' = eiTimedOut \cup {eiTarget}
                ELSE /\ eiPc' = "poll"
                     /\ UNCHANGED <<eiTarget, eiTimedOut>>
    /\ UNCHANGED <<eiScript, eiStatus, eiExisting, eiFound, eiRequested, eiSearched>>
    /\ eiFrame

PollSearchIndexes == \E raised \in BOOLEAN : PollSearchIndexesWith(raised)

\* run_benchmarks(collection, "Black Cat"): its $search is the first one sent
RunBenchmarks ==
    /\ eiPc = "benchmarks"
    /\ eiSearched' = eiStatus[eiTarget]
    /\ eiPc' = "done"
    /\ UNCHANGED <<eiScript, eiStatus, eiTarget, eiPolls, eiExisting, eiFound,
                   eiRequested, eiTimedOut>>
    /\ eiFrame

\* the server goes on with an index build: the index gets listed, then
\* queryable
IndexBuilds ==
    /\ \E k \in 1..NumTargets(eiScript) :
        /\ eiStatus[k] \in {"pending", "building"}
        /\ eiStatus' = [eiStatus EXCEPT ![k] =
                            IF eiStatus[k] = "pending" THEN "building" ELSE "queryable"]
    /\ UNCHANGED <<eiScript, eiTarget, eiPc, eiPolls, eiExisting, eiFound,
                   eiRequested, eiTimedOut, eiSearched>>
    /\ eiFrame

\* the steps of the script when the listing does not raise and the server
\* does not refuse
EnsureIndexStep ==
    \/ ListSearchIndexesWith(FALSE)
    \/ CreateSearchIndexWith(FALSE)
    \/ PollSearchIndexesWith(FALSE)
    \/ RunBenchmarks

NextEnsureIndex ==
    \/ ListSearchIndexes
    \/ CreateSearchIndex
    \/ PollSearchIndexes
    \/ RunBenchmarks
    \/ IndexBuilds

SpecEnsureIndex == InitEnsureIndex /\ [][NextEnsureIndex]_allVars

\* the script is never held up for ever; the server's builds may be, and no
\* call is bound to raise
SpecEnsureIndexFair == SpecEnsureIndex /\ WF_allVars(EnsureIndexStep)

\* --------------------------------------------------- 06_cleanup_mcp_demo.py
\* _drop_search_index_if_exists: "dropped", "not_found" (returns False) or
\* "raised".  The listing counts as empty when it raises; a listing with
\* names but not this one returns at once; otherwise the drop is tried, and
\* a drop of an index that is not there is answered "not found".
_drop_search_index_if_exists(exists, others, list_error, drop_error) ==
    LET existing == IF list_error THEN {}
                    ELSE (IF exists THEN {"name"} ELSE {})
                         \cup (IF others THEN {"other"} ELSE {})
    IN  IF existing # {} /\ "name" \notin existing THEN "not_found"
        ELSE IF drop_error THEN "raised"
        ELSE IF exists THEN "dropped" ELSE "not_found"

\* what main returns at its end: print("Cleanup complete."); return 0
main_return(failed) == 0

InitCleanup ==
    /\ HybridOff
    /\ StagesOff
    /\ AddEmbeddingsOff
    /\ BackfillOff
    /\ MemoryCollectionOff
    /\ EnsureIndexOff
    /\ EmbedTextsOff
    /\ clIndex \in [Targets -> BOOLEAN]
    /\ clEmbedded \in [Embedded -> BOOLEAN]
    /\ clMemDb \in BOOLEAN
    /\ clIndex[3] => clMemDb
    /\ clStep = 1
    /\ clPc = "connect"
    /\ clReturn = NotReturned
    /\ clFailed = {}

clFrame == UNCHANGED <<vars, stageVars, aeVars, bfVars, mcVars, eiVars, etVars>>

\* client.admin.command("ping"); except ServerSelectionTimeoutError: return 2
CleanupConnect ==
    /\ clPc = "connect"
    /\ \E timeout \in BOOLEAN :
        IF timeout
        THEN clPc' = "done" /\ clReturn' = 2
        ELSE clPc' = "drop_index" /\ UNCHANGED clReturn
    /\ clStep' = 1
    /\ UNCHANGED <<clIndex, clEmbedded, clMemDb, clFailed>>
    /\ clFrame

\* try: _drop_search_index_if_exists(coll, index) except Exception: print,
\* for comments, movies and memory in turn
DropSearchIndex ==
    /\ clPc = "drop_index"
    /\ \E others, list_error, drop_error \in BOOLEAN :
        LET outcome == _drop_search_index_if_exists(clIndex[clStep], others,
                                                    list_error, drop_error)
        IN  /\ clIndex' = IF outcome = "dropped"
                          THEN [clIndex EXCEPT ![clStep] = FALSE] ELSE clIndex
            /\ clFailed' = IF outcome = "raised"
                           THEN clFailed \cup {<<"drop_index", clStep>>} ELSE clFailed
    /\ IF clStep < 3
       THEN clStep' = clStep + 1 /\ clPc' = "drop_index"
       ELSE clStep' = 1 /\ clPc' = "unset"
    /\ UNCHANGED <<clEmbedded, clMemDb, clReturn>>
    /\ clFrame

\* try: n = _unset_embedding_field(coll, field) except Exception: print,
\* for comments and movies in turn
UnsetEmbeddingField ==
    /\ clPc = "unset"
    /\ \E raised \in BOOLEAN :
        IF raised
        THEN /\ clFailed' = clFailed \cup {<<"unset", clStep>>}
             /\ UNCHANGED clEmbedded
        ELSE /\ clEmbedded' = [clEmbedded EXCEPT ![clStep] = FALSE]
             /\ UNCHANGED clFailed
    /\ IF clStep < 2
       THEN clStep' = clStep + 1 /\ clPc' = "unset"
       ELSE clStep' = 1 /\ clPc' = "drop_database"
    /\ UNCHANGED <<clIndex, clMemDb, clReturn>>
    /\ clFrame

\* try: client.drop_database(cfg.mem_db) except Exception: print;
\* print("Cleanup complete."); return 0
DropDatabase ==
    /\ clPc = "drop_database"
    /\ \E raised \in BOOLEAN :
        IF raised
        THEN /\ clFailed' = clFailed \cup {<<"drop_database", 1>>}
             /\ UNCHANGED <<clMemDb, clIndex>>
        ELSE /\ clMemDb' = FALSE
             /\ clIndex' = [clIndex EXCEPT ![3] = FALSE]
             /\ UNCHANGED clFailed
    /\ clReturn' = main_return(clFailed')
    /\ clPc' = "done"
    /\ UNCHANGED <<clEmbedded, clStep>>
    /\ clFrame

NextCleanup == CleanupConnect \/ DropSearchIndex \/ UnsetEmbeddingField \/ DropDatabase

SpecCleanup == InitCleanup /\ [][NextCleanup]_allVars

\* ------------------------------------------- add_embeddings.py: embed_texts
\* for _ in range(5)
embed_attempts == 5

\* a handler that retries after any exception
retried_any(outcome) == outcome # "ok"

\* except voyageai.error.RateLimitError: print, time.sleep(5), next turn
retried(outcome) == outcome = "rate_limit"

InitEmbedTexts ==
    /\ HybridOff
    /\ StagesOff
    /\ AddEmbeddingsOff
    /\ BackfillOff
    /\ MemoryCollectionOff
    /\ EnsureIndexOff
    /\ CleanupOff
    /\ etService \in [1..MaxCalls -> {"ok", "rate_limit", "error"}]
    /\ etCalls = 0
    /\ etResult = "running"
    /\ etReturned = 0
    /\ etMain = "waiting"

etFrame == UNCHANGED <<vars, stageVars, aeVars, bfVars, mcVars, eiVars, clVars>>

\* one turn of the loop: resp = client.embed(...); return resp.embeddings, or
\* the handler of the exception it raised
EmbedTextsCall ==
    /\ etResult = "running"
    /\ etCalls < embed_attempts
    /\ etCalls' = etCalls + 1
    /\ LET outcome == etService[etCalls']
       IN  IF outcome = "ok"
           THEN etResult' = "returned" /\ etReturned' = etCalls'
           ELSE IF retried(outcome)
           THEN UNCHANGED <<etResult, etReturned>>
           ELSE etResult' = "raised" /\ UNCHANGED etReturned
    /\ UNCHANGED <<etService, etMain>>
    /\ etFrame

\* raise RuntimeError("Exceeded retries for embed_texts")
EmbedTextsGiveUp ==
    /\ etResult = "running"
    /\ etCalls >= embed_attempts
    /\ etResult' = "runtime_error"
    /\ UNCHANGED <<etService, etCalls, etReturned, etMain>>
    /\ etFrame

\* main: try: vectors = embed_texts(texts) except Exception: continue
MainHandlesEmbedTexts ==
    /\ etResult \in {"returned", "raised", "runtime_error"}
    /\ etMain = "waiting"
    /\ etMain' = IF etResult = "returned" THEN "write" ELSE "skipped"
    /\ UNCHANGED <<etService, etCalls, etResult, etReturned>>
    /\ etFrame

NextEmbedTexts == EmbedTextsCall \/ EmbedTextsGiveUp \/ MainHandlesEmbedTexts

SpecEmbedTexts == InitEmbedTexts /\ [][NextEmbedTexts]_allVars

\* embed_texts is not held up: a call is answered, time.sleep returns
SpecEmbedTextsFair == SpecEmbedTexts /\ WF_allVars(NextEmbedTexts)

\* ============================================================ properties
\* main has a result: the aggregation returned
Returned == pc \in {"aggregated", "done"}

\* x = y, x >= y and s = x + y on rationals <<num, den>>, by cross-multiplication
RatEq(x, y) == x[1] * y[2] = y[1] * x[2]
RatGeq(x, y) == x[1] * y[2] >= y[1] * x[2]
RatSum(s, x, y) == s[1] * x[2] * y[2] = s[2] * (x[1] * y[2] + y[1] * x[2])

\* the score item id received from a source: that of its candidate there, and
\* 0 when the source did not return it
Received(candidates, score_field_name, id) ==
    LET own == { d \in Range(candidates) : d.docs._id = id }
    IN  IF own = {} THEN <<0, 1>> ELSE (CHOOSE d \in own : TRUE)[score_field_name]

\* the items the two sources handed to the merge
FusedIds ==
    { d.docs._id : d \in Range(scored.vector) \cup Range(scored.text) }

\* C1: every candidate of either source is scored 1 / (NativeRank + priority
\* + 1), NativeRank being its zero-based position in its own source's ranking;
\* rank 0 under priority 5 scores 1/6.
C1_ScoreIsReciprocalRank ==
    /\ \A d \in Range(scored.vector) :
        /\ d.rank \in 0..(Len(vecHits) - 1)
        /\ d.docs._id = vecHits[d.rank + 1]
        /\ d.vs_score[2] # 0
        /\ d.vs_score[1] * (d.rank + vector_priority + 1) = d.vs_score[2]
        /\ (d.rank = 0 /\ vector_priority = 5) => d.vs_score = <<1, 6>>
    /\ \A d \in Range(scored.text) :
        /\ d.rank \in 0..(Len(txtHits) - 1)
        /\ d.docs._id = txtHits[d.rank + 1]
        /\ d.ts_score[2] # 0
        /\ d.ts_score[1] * (d.rank + text_priority + 1) = d.ts_score[2]
        /\ (d.rank = 0 /\ text_priority = 5) => d.ts_score = <<1, 6>>

\* a candidate at rank 0 under priority 5, and one further down its list
C1_Witness ==
    /\ Returned
    /\ vector_priority = 5
    /\ \E d \in Range(scored.vector) : d.rank = 0 /\ d.vs_score = <<1, 6>>
    /\ \E d \in Range(scored.text) : d.rank = 2 /\ text_priority = 1

\* C2: the combined score of every output item is the sum of the scores it
\* received from the sources that returned it, a source that did not return
\* it adding exactly 0; scenario A gives A = 3/2, B = 3/2, C = 1/3.
C2_CombinedScoreIsSum ==
    Returned =>
        /\ \A r \in Range(results) :
            RatSum(r.score, Received(scored.vector, "vs_score", r._id),
                            Received(scored.text, "ts_score", r._id))
        /\ (/\ vecHits = <<1, 2, 3>> /\ txtHits = <<2, 1>>
            /\ vector_priority = 0 /\ text_priority = 0 /\ limit = 3)
           => { <<r._id, r.score>> : r \in Range(results) }
                = { <<1, <<3, 2>>>>, <<2, <<3, 2>>>>, <<3, <<1, 3>>>> }

\* scenario A has run, and C, absent from the text source, is in the output
C2_Witness ==
    /\ pc = "done"
    /\ vecHits = <<1, 2, 3>> /\ txtHits = <<2, 1>>
    /\ vector_priority = 0 /\ text_priority = 0 /\ limit = 3
    /\ Len(results) = 3
    /\ \E r \in Range(results) : r._id = 3 /\ r.score = <<1, 3>>

\* C3: down the output the combined score never increases.
C3_ScoresNonIncreasing ==
    Returned =>
        \A i \in 1..(Len(results) - 1) :
            RatGeq(results[i].score, results[i + 1].score)

\* an output of three items with two strict descents
C3_Witness ==
    /\ Returned
    /\ Len(results) = 3
    /\ ~RatGeq(results[2].score, results[1].score)
    /\ ~RatGeq(results[3].score, results[2].score)

\* C4: no ItemID occurs twice in the output.
C4_NoDuplicateIds ==
    Returned =>
        \A i, j \in DOMAIN results : i # j => results[i]._id # results[j]._id

\* an item returned by both sources is in an output of several items
C4_Witness ==
    /\ Returned
    /\ Len(results) >= 2
    /\ \E r \in Range(results) :
        /\ \E d \in Range(scored.vector) : d.docs._id = r._id
        /\ \E d \in Range(scored.text) : d.docs._id = r._id

\* C5: every ItemID of the output is one a source returned.
C5_NoFabricatedIds ==
    \A r \in Range(results) : r._id \in Range(vecHits) \cup Range(txtHits)

\* a non-empty output although some item of the corpus matched neither query
C5_Witness ==
    /\ Returned
    /\ results # <<>>
    /\ Range(vecHits) \cup Range(txtHits) # Items

\* C6: output items of equal combined score stand in ascending ItemID order.
C6_TiesAscendingById ==
    Returned =>
        \A i, j \in DOMAIN results :
            (i < j /\ RatEq(results[i].score, results[j].score))
                => results[i]._id < results[j]._id

\* C7: a second run with the same candidate lists, priorities and limit
\* prints what the first printed: same items, same order, same scores.
C7_SameOutputTwice ==
    pc = "done" => \A k \in DOMAIN history : history[k] = printed

\* C8: the output is the first min(limit, D) entries of the full sorted
\* ranking of the D distinct fused items: never more than limit entries, and
\* no omitted item outranks one that was kept.
C8_OutputIsTopOfRanking ==
    Returned =>
        LET D == Cardinality(FusedIds)
            n == IF limit < D THEN limit ELSE D
        IN  /\ Len(ranked) = D
            /\ { r._id : r \in Range(ranked) } = FusedIds
            /\ Len(results) = n
            /\ Len(results) <= limit
            /\ \A i \in 1..n : results[i] = ranked[i]
            /\ \A i \in 1..n : \A k \in (n + 1)..D :
                RatGeq(results[i].score, ranked[k].score)

\* the cut dropped an item scoring strictly less than every item kept
C8_Witness ==
    /\ Returned
    /\ Len(results) = 2
    /\ Len(ranked) = 3
    /\ ~RatGeq(ranked[3].score, results[2].score)

EndedWithoutFailure ==
    /\ pc \in {"aggregated", "done", "crashed"}
    /\ ~embedFailed /\ ~vectorFailed /\ ~textFailed

\* the ItemIDs of a list of documents, in order
Ids(docs) == [i \in DOMAIN docs |-> docs[i]._id]

\* C11: a request with limit <= 0 returns an empty list and raises no error.
C11_NonPositiveLimitReturnsEmpty ==
    (limit <= 0 /\ EndedWithoutFailure) => (pc # "crashed" /\ results = <<>>)

\* C12: when both sources return no candidate the result is the empty list,
\* and the emptiness raises no error.
C12_EmptySourcesReturnEmpty ==
    (vecHits = <<>> /\ txtHits = <<>>) =>
        /\ Returned => (ranked = <<>> /\ results = <<>>)
        /\ pc = "done" => printed = <<>>
        /\ (limit >= 1 /\ EndedWithoutFailure) => pc # "crashed"

\* both sources were queried, matched nothing, and main printed nothing
C12_Witness ==
    /\ vecHits = <<>> /\ txtHits = <<>>
    /\ pc = "done"
    /\ scored = NoScored
    /\ printed = <<>>

\* C13 as stated: a source hands the merge min(limit * 10, matches)
\* candidates, so an item ranked beyond position limit can still be fused.
C13_SourcesCutAtTenTimesLimit ==
    Returned =>
        /\ Len(scored.vector) =
            (IF limit * overrequest_factor < Len(vecHits)
             THEN limit * overrequest_factor ELSE Len(vecHits))
        /\ Len(scored.text) =
            (IF limit * overrequest_factor < Len(txtHits)
             THEN limit * overrequest_factor ELSE Len(txtHits))

\* C13 as amended: a source hands the merge min(limit, matches) candidates,
\* its first ones; an item ranked beyond position limit in a source gets no
\* score from that source.
C13_SourcesCutAtLimit ==
    Returned =>
        /\ Len(scored.vector) = (IF limit < Len(vecHits) THEN limit ELSE Len(vecHits))
        /\ Len(scored.text) = (IF limit < Len(txtHits) THEN limit ELSE Len(txtHits))
        /\ \A k \in DOMAIN vecHits :
            k > limit => \A d \in Range(scored.vector) : d.docs._id # vecHits[k]
        /\ \A k \in DOMAIN txtHits :
            k > limit => \A d \in Range(scored.text) : d.docs._id # txtHits[k]

\* both sources matched more than limit documents, and an item that only
\* ranks beyond position limit is not in the ranking
C13_Witness ==
    /\ Returned
    /\ Len(vecHits) > limit /\ Len(txtHits) > limit
    /\ Len(scored.vector) = limit /\ Len(scored.text) = limit
    /\ \E id \in Range(vecHits) : \A r \in Range(ranked) : r._id # id

\* C14: the ranks of the n candidates of a source are 0, 1, ..., n-1 in the
\* order the source returned them, whatever the other source returned.
C14_RanksArePositions ==
    /\ \A k \in DOMAIN scored.vector :
        scored.vector[k].rank = k - 1 /\ scored.vector[k].docs._id = vecHits[k]
    /\ \A k \in DOMAIN scored.text :
        scored.text[k].rank = k - 1 /\ scored.text[k].docs._id = txtHits[k]

\* three vector candidates and two text candidates, each list ranked from 0
C14_Witness ==
    /\ Returned
    /\ Len(scored.vector) = 3 /\ Len(scored.text) = 2
    /\ scored.vector[3].rank = 2 /\ scored.text[1].rank = 0

\* C17: the same inputs produce the same output order whichever retrieval
\* finishes first, also among items of equal score: every run prints the
\* ItemIDs in the order the earlier runs printed them.
C17_OrderDeterminedByInputs ==
    pc = "done" => \A k \in DOMAIN history : Ids(history[k]) = Ids(printed)

\* C18: the presentation fields of every result are those of the document
\* with its ItemID, and what is presented is the fused ranking in its order,
\* no item removed or moved.
C18_PresentationKeepsFusionOrder ==
    /\ \A r \in Range(results) \cup Range(printed) : r.title = Title(r._id)
    /\ Returned => Ids(results) = Ids(Take(ranked, limit))
    /\ pc = "done" => Ids(printed) = Ids(results)

\* an item found by both sources is presented among others
C18_Witness ==
    /\ pc = "done"
    /\ Len(printed) >= 2
    /\ \E r \in Range(printed) :
        /\ \E d \in Range(scored.vector) : d.docs._id = r._id
        /\ \E d \in Range(scored.text) : d.docs._id = r._id

\* the scored documents of item id under the lower priority
StageOwn(id) == { d \in Range(stageScored.low) : d.docs._id = id }

\* C15: when an ItemID occurs more than once in one source's list, the score
\* kept for that source is the greatest of its scores there, not the sum,
\* the first or the last.
C15_DuplicateKeepsMaximum ==
    stagePc = "combined" =>
        /\ { g._id : g \in stageCombined.low } = { d[1] : d \in Range(stageDocs) }
        /\ \A g \in stageCombined.low :
            /\ \E d \in StageOwn(g._id) : g[stageField] = d[stageField]
            /\ \A d \in StageOwn(g._id) : RatGeq(g[stageField], d[stageField])

\* item A three times in one list, at ranks 1, 0 and 2: the score kept is
\* that of rank 0, which is neither the first nor the last nor the sum
C15_Witness ==
    /\ stagePc = "combined"
    /\ stageDocs = << <<1, 1>>, <<1, 0>>, <<1, 2>> >>
    /\ stagePriority.low = 0
    /\ \E g \in stageCombined.low : g._id = 1 /\ g[stageField] = <<1, 1>>

\* C16: with the candidate list fixed, a higher priority never raises the
\* score of a candidate, nor the score the source contributes to an item.
C16_PriorityNeverRaisesScore ==
    /\ stagePc \in {"scored", "combined"} =>
        \A k \in DOMAIN stageDocs :
            RatGeq(stageScored.low[k][stageField], stageScored.high[k][stageField])
    /\ stagePc = "combined" =>
        \A g \in stageCombined.low : \A h \in stageCombined.high :
            g._id = h._id => RatGeq(g[stageField], h[stageField])

\* an item whose score from the source is strictly lower under the higher
\* priority
C16_Witness ==
    /\ stagePc = "combined"
    /\ stagePriority.low < stagePriority.high
    /\ \E g \in stageCombined.low : \E h \in stageCombined.high :
        g._id = h._id /\ ~RatGeq(h[stageField], g[stageField])

\* C19: a run updates only documents that had no plot_embedding when it
\* started and have a non-empty string plot; it changes nothing else and
\* overwrites no plot_embedding; a run following a run that wrote every batch
\* and ended updates no document.
C19_OnlyMissingEmbeddingsWritten ==
    /\ \A i \in written : embAtStart[i] = "none" /\ plot[i] = "text"
    /\ \A i \in Docs : embAtStart[i] # "none" => plot_embedding[i] = embAtStart[i]
    /\ \A i \in Docs : plot_embedding[i] # embAtStart[i] => i \in written
    /\ prevComplete => (written = {} /\ total_updates = 0)

\* a second run has ended after a complete first run that embedded a document
\* beside one that was embedded before and one without a plot
C19_Witness ==
    /\ aeRun = 2 /\ prevComplete /\ aePc = "done"
    /\ written = {}
    /\ \E i, j, k \in Docs :
        /\ plot_embedding[i] = "new"
        /\ plot_embedding[j] = "old" /\ plot[j] = "text"
        /\ plot_embedding[k] = "none" /\ plot[k] # "text"

\* C20: under DRY_RUN a run writes nothing to MongoDB: it updates no
\* document and creates no index.
C20_DryRunWritesNothing ==
    DRY_RUN => (written = {} /\ ~indexCreated /\ plot_embedding = embAtStart)

\* the embedding field is missing or null
lacks_embedding(e) == e \in {"missing", "null"}

\* C21: without FORCE a backfill run embeds and updates only documents whose
\* embedding field was missing or null when they were selected; the field of
\* a document that had a vector then is never written.
C21_BackfillKeepsExistingEmbeddings ==
    ~force =>
        /\ \A k \in DOMAIN bfDocs : lacks_embedding(embAtSelect[bfDocs[k]])
        /\ \A i \in Range(ids) \cup bfWritten : lacks_embedding(embAtSelect[i])
        /\ \A i \in Docs :
               ~lacks_embedding(embAtSelect[i]) => embedding[i] = embAtSelect[i]

\* a run without FORCE has ended after updating a document, beside a document
\* with text that had a vector and keeps it
C21_Witness ==
    /\ ~force /\ bfPc = "done"
    /\ \E i, j \in Docs :
        /\ i \in bfWritten /\ embedding[i] = "new"
        /\ embAtSelect[j] = "old" /\ build_text(bfScript, j)

\* C22: a run of 01_create_memory_collection after the first leaves the
\* collection, its indexes and its number of documents as the first run left
\* them; over all runs at most one seed document is inserted, and only into
\* a collection that was empty.
C22_CreateMemoryCollectionIdempotent ==
    /\ mcRun > 1 => mcState = mcAfterFirst
    /\ mcSeeds <= 1
    /\ mcSeeds = 1 => mcCount0 = 0

\* a second run has ended on the collection the first run created and seeded
C22_Witness ==
    /\ mcRun = 2 /\ mcPc = "done"
    /\ mcSeeds = 1 /\ mcCount = 1
    /\ \A k \in DOMAIN IndexNames : mcIndexes[k] = "same"

\* C23: an ensure-index helper whose listing has an index of the target name
\* sends no create_search_index for it; it returns.
C23_NoCreateWhenListed ==
    /\ eiFound \cap eiRequested = {}
    /\ eiExisting => eiPc # "create"

\* add_plot_indexes has ended: its search index was listed and left alone, its
\* vector index was not listed and was requested
C23_Witness ==
    /\ eiScript = "add_plot_indexes" /\ eiPc = "done"
    /\ eiFound = {1} /\ eiRequested = {2}

\* 05_create_vector_search_indexes has come to its end, or an exception ended it
CreateIndexesEnded == eiPc \in {"done", "crashed"}

\* C24: 05_create_vector_search_indexes always terminates: a polling loop
\* lists at most 30 times and then returns whether or not the name has become
\* listed, and main ends only after ensuring its three collections.
C24_PollingIsBounded ==
    eiScript = "create_vector_search_indexes" =>
        /\ [](eiPolls <= poll_attempts)
        /\ [](eiPc = "done" => eiTarget = NumTargets(eiScript))
        /\ [](\A k \in eiTimedOut : eiPc = "crashed" \/ eiTarget > k
                                    \/ (eiPc = "done" /\ eiTarget = k))
        /\ <>CreateIndexesEnded

\* main has ended after requesting three indexes none of which ever got listed
C24_Witness ==
    /\ eiScript = "create_vector_search_indexes" /\ eiPc = "done"
    /\ eiTimedOut = Targets
    /\ eiPolls = poll_attempts
    /\ \A k \in Targets : eiStatus[k] = "pending"

\* C26: regex_fts_comparison sends its first $search only when the index
\* exists and has reported queryable.
C26_SearchOnlyWhenQueryable ==
    eiSearched # "none" => queryable(eiSearched)

\* C25: when the cleanup script returns 0, the memory database is dropped, no
\* document of comments or movies has the embedding field, and none of the
\* three vector search indexes exists.
C25_CompletionMeansCleanedUp ==
    clReturn = 0 =>
        /\ ~clMemDb
        /\ \A k \in Embedded : ~clEmbedded[k]
        /\ \A k \in Targets : ~clIndex[k]

\* the calls so far were all answered with a rate-limit error
AllRateLimited(n) == \A j \in 1..n : etService[j] = "rate_limit"

\* every call before the n-th was answered with a rate-limit error
FirstDecisive(n) == n >= 1 /\ AllRateLimited(n - 1)

embed_texts_invariant ==
    /\ etCalls <= embed_attempts
    /\ etResult = "running" => AllRateLimited(etCalls)
    /\ etResult = "returned" =>
           /\ FirstDecisive(etCalls) /\ etService[etCalls] = "ok"
           /\ etReturned = etCalls
    /\ etResult = "raised" =>
           FirstDecisive(etCalls) /\ etService[etCalls] = "error"
    /\ etResult = "runtime_error" =>
           etCalls = embed_attempts /\ AllRateLimited(embed_attempts)
    /\ etMain = "write" => etResult = "returned"
    /\ etMain = "skipped" => etResult \in {"raised", "runtime_error"}

\* C27: embed_texts calls the service at most 5 times and ends: it returns
\* the embeddings of the first call that succeeds, re-raises the first error
\* that is not a rate limit without calling again, and raises RuntimeError
\* after 5 rate-limit errors in a row.
C27_EmbedTextsRetriesAtMostFive ==
    /\ []embed_texts_invariant
    /\ <>(etResult \in {"returned", "raised", "runtime_error"})

\* five calls were rate limited, embed_texts raised RuntimeError and main
\* skipped the batch, although a sixth call would have succeeded
C27_Witness ==
    /\ etResult = "runtime_error" /\ etCalls = embed_attempts
    /\ etService[embed_attempts + 1] = "ok"
    /\ etMain = "skipped"

=============================================================================
